---- MODULE Spec2Model ----
(***************************************************************************)
(* Launch-argument relay of src-tauri/src/lib.rs: the PendingFile slot     *)
(* (Mutex<Option<String>>), the setup hook that captures argv[1], the      *)
(* deferred "open-file" emit task, the single-instance callback and the    *)
(* get_pending_file command.                                               *)
(*                                                                         *)
(* Rust indexes args from 0, TLA+ sequences from 1: args[1] in the source  *)
(* is a[2] here, and args.len() > 1 is Len(a) > 1.                         *)
(***************************************************************************)
EXTENDS Naturals, Sequences, FiniteSets

\* ---- bounds of the model ----
MaxLaunches == 1     \* second-instance launches delivered to the callback
MaxPulls    == 2     \* get_pending_file invocations
TickMs      == 1500  \* granularity of the sleeping task's elapsed time

\* ---- program constants ----
DELAY_MS == 1500     \* Duration::from_millis(1500)

None     == "None"          \* Option::None of the slot / of a command result
ProgName == "app"           \* argv[0]
Paths    == {"a", "b"}      \* candidate values of argv[1]
Extra    == "x"             \* argv[2..]: never read by the program
AllPaths == Paths \cup {ProgName}
Pullers  == {1, 2}           \* command invocations that may be in flight at once

\* argument lists of length 0 to 3: empty, the program name alone, the
\* program name and a path, and one with a further argument
ArgLists ==
  {<<>>, <<ProgName>>, <<ProgName, "a">>, <<ProgName, "b", Extra>>}

VARIABLES
  args,          \* env::args() of this process
  fs,            \* the paths for which Path::exists() is true (the executable
                 \* itself, argv[0], among them)
  window_exists, \* whether get_webview_window("main") is Some
  listening,     \* whether the frontend has attached its "open-file" listener
  pending,       \* PendingFile: None or the stored path
  mutex,         \* holder of the PendingFile mutex: "free", "setup" or "pull"
  setup_pc,      \* position of the setup closure
  path,          \* the setup closure's local `path`
  setup_result,  \* what the setup closure returned
  task_pc,       \* the spawned task: "none", "sleeping", "done"
  task_path,     \* the `path` moved into the spawned task
  slept,         \* milliseconds the task has slept so far
  pull_pc,       \* position of each get_pending_file invocation
  launches,      \* argument lists delivered to the single-instance callback
  log            \* what happened, in order: the setup closure's capture or skip,
                 \* emits, window calls, command results

vars == <<args, fs, window_exists, listening, pending, mutex, setup_pc, path,
          setup_result, task_pc, task_path, slept, pull_pc, launches, log>>

Entry(op, who, n, val) == [op |-> op, who |-> who, n |-> n, val |-> val]

\* std::path::Path::new(&p).exists()
Exists(p) == p \in fs

\* variant: the length test and the index are off by one (argv[0] is taken)
SetupCandidate_OffByOne(a) ==
  IF Len(a) > 0
    THEN IF Exists(a[1]) THEN a[1] ELSE None
    ELSE None

\* variant: the existence test is missing
SetupCandidate_NoExists(a) ==
  IF Len(a) > 1 THEN a[2] ELSE None

\* lines 50-52: the path the setup closure accepts, or None
SetupCandidate(a) ==
  IF Len(a) > 1
    THEN IF Exists(a[2]) THEN a[2] ELSE None
    ELSE None

\* variant: the existence test is missing
LaunchCandidate_NoExists(a) ==
  IF Len(a) > 1 THEN a[2] ELSE None

\* lines 29-31: the path the single-instance callback accepts, or None
LaunchCandidate(a) ==
  IF Len(a) > 1
    THEN IF Exists(a[2]) THEN a[2] ELSE None
    ELSE None

NumPulls == Cardinality({i \in 1..Len(log) : log[i].op = "pull"})
InFlight == Cardinality({t \in Pullers : pull_pc[t] = "locked"})

Init ==
  /\ args \in ArgLists
  /\ fs \in {S \cup {ProgName} : S \in SUBSET Paths}
  /\ window_exists \in BOOLEAN
  /\ listening = FALSE
  /\ pending = None
  /\ mutex = "free"
  /\ setup_pc = "init"
  /\ path = None
  /\ setup_result = "none"
  /\ task_pc = "none"
  /\ task_path = None
  /\ slept = 0
  /\ pull_pc = [t \in Pullers |-> "idle"]
  /\ launches = <<>>
  /\ log = <<>>

\* setup closure, lines 47-52 and 65: read the arguments, validate argv[1];
\* with no valid path the closure skips the capture and falls through to Ok(())
SetupArgs ==
  /\ setup_pc = "init"
  /\ IF SetupCandidate(args) # None
       THEN /\ path' = SetupCandidate(args)
            /\ setup_pc' = "checked"
            /\ UNCHANGED <<setup_result, log>>
       ELSE /\ setup_pc' = "done"
            /\ setup_result' = "Ok"
            /\ log' = Append(log, Entry("skip", "setup", 0, None))
            /\ UNCHANGED path
  /\ UNCHANGED <<args, fs, window_exists, listening, pending, mutex, task_pc,
                 task_path, slept, pull_pc, launches>>

\* line 55, state.0.lock().unwrap(): acquire the mutex
SetupLock ==
  /\ setup_pc = "checked"
  /\ mutex = "free"
  /\ mutex' = "setup"
  /\ setup_pc' = "locked"
  /\ UNCHANGED <<args, fs, window_exists, listening, pending, path, setup_result,
                 task_pc, task_path, slept, pull_pc, launches, log>>

\* variant: the guard is bound to a local and outlives the store
SetupStore_KeepsLock ==
  /\ setup_pc = "locked"
  /\ pending' = path
  /\ setup_pc' = "stored"
  /\ log' = Append(log, Entry("capture", "setup", 0, path))
  /\ UNCHANGED <<args, fs, window_exists, listening, mutex, path, setup_result,
                 task_pc, task_path, slept, pull_pc, launches>>

\* line 55, *guard = Some(path.clone()); the temporary guard is dropped at the
\* end of the statement
SetupStore ==
  /\ setup_pc = "locked"
  /\ pending' = path
  /\ mutex' = "free"
  /\ setup_pc' = "stored"
  /\ log' = Append(log, Entry("capture", "setup", 0, path))
  /\ UNCHANGED <<args, fs, window_exists, listening, path, setup_result, task_pc,
                 task_path, slept, pull_pc, launches>>

\* lines 58-62 and 65: spawn the task with its own `path`, return Ok(())
SetupSpawn ==
  /\ setup_pc = "stored"
  /\ task_pc' = "sleeping"
  /\ task_path' = path
  /\ slept' = 0
  /\ setup_pc' = "done"
  /\ setup_result' = "Ok"
  /\ UNCHANGED <<args, fs, window_exists, listening, pending, mutex, path,
                 pull_pc, launches, log>>

\* line 60: the task's thread sleeps
TaskSleep ==
  /\ task_pc = "sleeping"
  /\ slept < DELAY_MS
  /\ slept' = slept + TickMs
  /\ UNCHANGED <<args, fs, window_exists, listening, pending, mutex, setup_pc,
                 path, setup_result, task_pc, task_path, pull_pc, launches, log>>

\* variant: the task emits without having slept
TaskEmit_NoSleep ==
  /\ task_pc = "sleeping"
  /\ log' = Append(log, Entry("emit", "task", 0, task_path))
  /\ task_pc' = "done"
  /\ UNCHANGED <<args, fs, window_exists, listening, pending, mutex, setup_pc,
                 path, setup_result, task_path, slept, pull_pc, launches>>

\* variant: the task clears the slot when it emits
TaskEmit_Takes ==
  /\ task_pc = "sleeping"
  /\ slept >= DELAY_MS
  /\ mutex = "free"
  /\ log' = Append(log, Entry("emit", "task", 0, task_path))
  /\ pending' = None
  /\ task_pc' = "done"
  /\ UNCHANGED <<args, fs, window_exists, listening, mutex, setup_pc,
                 path, setup_result, task_path, slept, pull_pc, launches>>

\* variant: the task emits again until a listener is attached
TaskEmit_Retry ==
  /\ task_pc = "sleeping"
  /\ slept >= DELAY_MS
  /\ log' = Append(log, Entry("emit", "task", 0, task_path))
  /\ task_pc' = IF listening THEN "done" ELSE "sleeping"
  /\ UNCHANGED <<args, fs, window_exists, listening, pending, mutex, setup_pc,
                 path, setup_result, task_path, slept, pull_pc, launches>>

\* variant: the task reads the slot when it emits instead of its own path
TaskEmit_ReadsSlot ==
  /\ task_pc = "sleeping"
  /\ slept >= DELAY_MS
  /\ mutex = "free"
  /\ log' = Append(log, Entry("emit", "task", 0, pending))
  /\ task_pc' = "done"
  /\ UNCHANGED <<args, fs, window_exists, listening, pending, mutex, setup_pc,
                 path, setup_result, task_path, slept, pull_pc, launches>>

\* line 61: after the sleep, emit "open-file" with the task's path
TaskEmit ==
  /\ task_pc = "sleeping"
  /\ slept >= DELAY_MS
  /\ log' = Append(log, Entry("emit", "task", 0, task_path))
  /\ task_pc' = "done"
  /\ UNCHANGED <<args, fs, window_exists, listening, pending, mutex, setup_pc,
                 path, setup_result, task_path, slept, pull_pc, launches>>

\* variant: the window is used without testing that it was found
WindowCalls_Always(k) ==
  <<Entry("show", "launch", k, None), Entry("focus", "launch", k, None)>>

\* lines 35-40: get_webview_window("main").map(show; set_focus)
WindowCalls(k) ==
  IF window_exists
    THEN <<Entry("show", "launch", k, None), Entry("focus", "launch", k, None)>>
    ELSE <<>>

\* variant: the callback emits a valid path twice
LaunchEmits_Twice(a, k) ==
  IF LaunchCandidate(a) # None
    THEN <<Entry("emit", "launch", k, LaunchCandidate(a)),
           Entry("emit", "launch", k, LaunchCandidate(a))>>
    ELSE <<>>

\* lines 29-34: emit "open-file" when argv[1] names an existing path
LaunchEmits(a, k) ==
  IF LaunchCandidate(a) # None
    THEN <<Entry("emit", "launch", k, LaunchCandidate(a))>>
    ELSE <<>>

\* variant: the callback also stores a valid path in the slot
SecondLaunch_Stores(a) ==
  /\ Len(launches) < MaxLaunches
  /\ mutex = "free"
  /\ launches' = Append(launches, a)
  /\ pending' = IF LaunchCandidate(a) # None THEN LaunchCandidate(a) ELSE pending
  /\ log' = log \o <<Entry("launch", "launch", Len(launches) + 1, None)>>
                \o LaunchEmits(a, Len(launches) + 1)
                \o WindowCalls(Len(launches) + 1)
  /\ UNCHANGED <<args, fs, window_exists, listening, mutex, setup_pc,
                 path, setup_result, task_pc, task_path, slept, pull_pc>>

\* variant: the callback stores a valid path when the slot is empty
SecondLaunch_StoresIfEmpty(a) ==
  /\ Len(launches) < MaxLaunches
  /\ mutex = "free"
  /\ launches' = Append(launches, a)
  /\ pending' = IF LaunchCandidate(a) # None /\ pending = None
                  THEN LaunchCandidate(a) ELSE pending
  /\ log' = log \o <<Entry("launch", "launch", Len(launches) + 1, None)>>
                \o LaunchEmits(a, Len(launches) + 1)
                \o WindowCalls(Len(launches) + 1)
  /\ UNCHANGED <<args, fs, window_exists, listening, mutex, setup_pc,
                 path, setup_result, task_pc, task_path, slept, pull_pc>>

\* variant: show and set_focus sit inside the valid-path branch
SecondLaunch_WindowIfValid(a) ==
  /\ Len(launches) < MaxLaunches
  /\ launches' = Append(launches, a)
  /\ log' = log \o <<Entry("launch", "launch", Len(launches) + 1, None)>>
                \o LaunchEmits(a, Len(launches) + 1)
                \o (IF LaunchCandidate(a) # None
                      THEN WindowCalls(Len(launches) + 1) ELSE <<>>)
  /\ UNCHANGED <<args, fs, window_exists, listening, pending, mutex, setup_pc,
                 path, setup_result, task_pc, task_path, slept, pull_pc>>

\* lines 28-41: the single-instance callback
SecondLaunch(a) ==
  /\ Len(launches) < MaxLaunches
  /\ launches' = Append(launches, a)
  /\ log' = log \o <<Entry("launch", "launch", Len(launches) + 1, None)>>
                \o LaunchEmits(a, Len(launches) + 1)
                \o WindowCalls(Len(launches) + 1)
  /\ UNCHANGED <<args, fs, window_exists, listening, pending, mutex, setup_pc,
                 path, setup_result, task_pc, task_path, slept, pull_pc>>

\* variant: the command does not wait for the mutex
PullLock_NoMutex(t) ==
  /\ pull_pc[t] = "idle"
  /\ NumPulls + InFlight < MaxPulls
  /\ mutex' = "pull"
  /\ pull_pc' = [pull_pc EXCEPT ![t] = "locked"]
  /\ UNCHANGED <<args, fs, window_exists, listening, pending, setup_pc, path,
                 setup_result, task_pc, task_path, slept, launches, log>>

\* line 21, state.0.lock().unwrap(): acquire the mutex
PullLock(t) ==
  /\ pull_pc[t] = "idle"
  /\ NumPulls + InFlight < MaxPulls
  /\ mutex = "free"
  /\ mutex' = "pull"
  /\ pull_pc' = [pull_pc EXCEPT ![t] = "locked"]
  /\ UNCHANGED <<args, fs, window_exists, listening, pending, setup_pc, path,
                 setup_result, task_pc, task_path, slept, launches, log>>

\* variant: the command reads the slot without clearing it
PullTake_Peek(t) ==
  /\ pull_pc[t] = "locked"
  /\ log' = Append(log, Entry("pull", "pull", 0, pending))
  /\ mutex' = "free"
  /\ pull_pc' = [pull_pc EXCEPT ![t] = "idle"]
  /\ UNCHANGED <<args, fs, window_exists, listening, pending, setup_pc, path,
                 setup_result, task_pc, task_path, slept, launches>>

\* variant: a pull that takes the path cancels the sleeping task
PullTake_Cancels(t) ==
  /\ pull_pc[t] = "locked"
  /\ log' = Append(log, Entry("pull", "pull", 0, pending))
  /\ pending' = None
  /\ mutex' = "free"
  /\ pull_pc' = [pull_pc EXCEPT ![t] = "idle"]
  /\ task_pc' = IF pending # None /\ task_pc = "sleeping" THEN "none" ELSE task_pc
  /\ UNCHANGED <<args, fs, window_exists, listening, setup_pc, path,
                 setup_result, task_path, slept, launches>>

\* variant: the command also emits the path it returns
PullTake_Emits(t) ==
  /\ pull_pc[t] = "locked"
  /\ log' = IF pending # None
              THEN log \o <<Entry("pull", "pull", 0, pending),
                            Entry("emit", "pull", 0, pending)>>
              ELSE Append(log, Entry("pull", "pull", 0, pending))
  /\ pending' = None
  /\ mutex' = "free"
  /\ pull_pc' = [pull_pc EXCEPT ![t] = "idle"]
  /\ UNCHANGED <<args, fs, window_exists, listening, setup_pc, path,
                 setup_result, task_pc, task_path, slept, launches>>

\* line 21, .take(): return the slot's value, leave None, drop the guard
PullTake(t) ==
  /\ pull_pc[t] = "locked"
  /\ log' = Append(log, Entry("pull", "pull", 0, pending))
  /\ pending' = None
  /\ mutex' = "free"
  /\ pull_pc' = [pull_pc EXCEPT ![t] = "idle"]
  /\ UNCHANGED <<args, fs, window_exists, listening, setup_pc, path,
                 setup_result, task_pc, task_path, slept, launches>>

\* the frontend attaches its "open-file" listener
FrontendListen ==
  /\ ~listening
  /\ listening' = TRUE
  /\ UNCHANGED <<args, fs, window_exists, pending, mutex, setup_pc, path,
                 setup_result, task_pc, task_path, slept, pull_pc, launches, log>>

Next ==
  \/ SetupArgs
  \/ SetupLock
  \/ SetupStore
  \/ SetupSpawn
  \/ TaskSleep
  \/ TaskEmit
  \/ \E a \in ArgLists : SecondLaunch(a)
  \/ \E t \in Pullers : PullLock(t)
  \/ \E t \in Pullers : PullTake(t)
  \/ FrontendListen

Spec == Init /\ [][Next]_vars

\* ---- reading the log ----
CaptureIdx  == {i \in 1..Len(log) : log[i].op = "capture"}
PullIdx     == {i \in 1..Len(log) : log[i].op = "pull"}
SkipIdx     == {i \in 1..Len(log) : log[i].op = "skip"}
TaskEmitIdx == {i \in 1..Len(log) : log[i].op = "emit" /\ log[i].who = "task"}
LaunchIdx(k)     == {i \in 1..Len(log) : log[i].op = "launch" /\ log[i].n = k}
LaunchOpIdx(k, op) ==
  {i \in 1..Len(log) : log[i].op = op /\ log[i].who = "launch" /\ log[i].n = k}
\* the argument list names an existing path in its second element
NamesExisting(a) == Len(a) > 1 /\ a[2] \in fs
\* this step is an invocation of the single-instance callback
LaunchStep == Len(launches') = Len(launches) + 1

\* C1: when the second startup argument names an existing path p, the first
\* get_pending_file after the setup hook stored it returns p and every pull
\* after that one returns None: p comes out of exactly one pull.
C1_PullReturnsPathOnce ==
  /\ (NamesExisting(args) /\ setup_pc \in {"stored", "done"}) =>
        \E i \in CaptureIdx : log[i].val = args[2]
  /\ \A i \in CaptureIdx : \A j \in PullIdx :
        j > i =>
          IF \E k \in PullIdx : i < k /\ k < j
            THEN log[j].val = None
            ELSE log[j].val = args[2]

C1_Witness ==
  \E i \in CaptureIdx : \E j \in PullIdx : \E k \in PullIdx :
     /\ i < j /\ j < k
     /\ log[j].val = args[2]
     /\ log[k].val = None

\* C2 as stated: a second launch with a valid path q while the slot holds a
\* different path p overwrites the slot with q.
C2_LaunchOverwrites ==
  [][(LaunchStep /\ NamesExisting(launches'[Len(launches')])
        /\ pending # None /\ pending # launches'[Len(launches')][2])
       => pending' = launches'[Len(launches')][2]]_vars

\* C2 amended: a second launch never touches the slot; a slot holding p still
\* holds p after a launch that carried a valid q # p, and the next pull
\* returns p, never q.
C2_LaunchKeepsSlot ==
  /\ [][LaunchStep => pending' = pending]_vars
  /\ [](\A k \in 1..Len(launches) : \A i \in LaunchIdx(k) : \A j \in PullIdx :
          (j > i /\ NamesExisting(launches[k]) /\ log[j].val # None)
             => /\ log[j].val = args[2]
                /\ \E c \in CaptureIdx : c < j)

C2_Witness ==
  \E c \in CaptureIdx : \E k \in 1..Len(launches) : \E i \in LaunchIdx(k) :
  \E j \in PullIdx :
     /\ c < i /\ i < j
     /\ \A m \in PullIdx : m >= j
     /\ NamesExisting(launches[k])
     /\ launches[k][2] # log[c].val
     /\ log[j].val = log[c].val

\* C3: only a pull moves the slot from Holding to Empty, so until a pull has
\* run after the capture the slot still holds the captured path, whatever the
\* task, the second launches and the listener have done meanwhile.
C3_OnlyPullEmpties ==
  /\ [][(pending # None /\ pending' = None)
          => \E t \in Pullers :
               /\ pull_pc[t] = "locked"
               /\ log' = Append(log, Entry("pull", "pull", 0, pending))]_vars
  /\ [](\A i \in CaptureIdx :
          (\A j \in PullIdx : j < i) => pending = log[i].val)

C3_Witness ==
  \E i \in CaptureIdx : \E e \in TaskEmitIdx : \E j \in PullIdx :
     /\ i < e /\ e < j
     /\ ~listening
     /\ \A m \in PullIdx : m >= j
     /\ log[j].val = log[i].val
     /\ log[j].val # None

\* C4: the task emits at most once, only for a captured path, only once it
\* has slept DELAY_MS, and a finished task has emitted exactly once; without
\* a capture there is no task and no emission from it.
C4_DeferredEmitOnceAfterDelay ==
  /\ Cardinality(TaskEmitIdx) <= 1
  /\ \A e \in TaskEmitIdx :
        /\ slept >= DELAY_MS
        /\ \E i \in CaptureIdx : i < e /\ log[i].val = log[e].val
  /\ (task_pc = "done") <=> (Cardinality(TaskEmitIdx) = 1)
  /\ (CaptureIdx = {}) => (task_pc = "none" /\ TaskEmitIdx = {})

C4_Witness ==
  \E e \in TaskEmitIdx : task_pc = "done" /\ log[e].val = args[2]

\* C5: once the setup hook has captured p, the task eventually emits
\* "open-file" with payload p, whether or not a pull has consumed p.
C5_DeferredEmitEventually ==
  (CaptureIdx # {}) ~> (\E e \in TaskEmitIdx : log[e].val = args[2])

C5_Witness ==
  \E i \in CaptureIdx : \E j \in PullIdx : \E e \in TaskEmitIdx :
     /\ i < j /\ j < e
     /\ log[j].val = args[2]
     /\ log[e].val = args[2]

\* events emitted by the startup path (the setup closure or its task)
StartupEmitIdx ==
  {i \in 1..Len(log) : log[i].op = "emit" /\ log[i].who \in {"setup", "task"}}

\* C6: with an argument list of length 0 or 1 the setup hook stores nothing,
\* spawns no task and emits nothing, and every pull returns None.
C6_ShortArgsCaptureNothing ==
  Len(args) <= 1 =>
    /\ setup_pc \in {"init", "done"}
    /\ pending = None
    /\ task_pc = "none"
    /\ CaptureIdx = {}
    /\ (setup_pc = "done") <=> (SkipIdx # {})
    /\ StartupEmitIdx = {}
    /\ \A j \in PullIdx : log[j].val = None

C6_Witness ==
  /\ Len(args) <= 1
  /\ \E r \in SkipIdx : \E j \in PullIdx : r < j /\ log[j].val = None

\* C7: when the second startup argument names no existing entry the setup
\* hook returns Ok, stores nothing, spawns no task and emits nothing, and
\* every pull returns None.
C7_MissingPathIsNoOp ==
  (Len(args) > 1 /\ args[2] \notin fs) =>
    /\ setup_pc \in {"init", "done"}
    /\ (setup_pc = "done") =>
          (setup_result = "Ok" /\ SkipIdx # {})
    /\ pending = None
    /\ task_pc = "none"
    /\ CaptureIdx = {}
    /\ StartupEmitIdx = {}
    /\ \A j \in PullIdx : log[j].val = None

C7_Witness ==
  /\ Len(args) > 1
  /\ args[2] \notin fs
  /\ setup_result = "Ok"
  /\ \E r \in SkipIdx : \E j \in PullIdx : r < j /\ log[j].val = None

\* C8: the k-th invocation of the single-instance callback emits "open-file"
\* exactly once, right away and with its own path, when its second argument
\* names an existing path, and emits nothing otherwise; it never starts or
\* advances a deferred task.
C8_LaunchEmitsImmediately ==
  /\ [](\A k \in 1..Len(launches) :
          /\ Cardinality(LaunchIdx(k)) = 1
          /\ \A i \in LaunchIdx(k) :
               IF NamesExisting(launches[k])
                 THEN /\ LaunchOpIdx(k, "emit") = {i + 1}
                      /\ log[i + 1].val = launches[k][2]
                 ELSE LaunchOpIdx(k, "emit") = {})
  /\ [][LaunchStep => UNCHANGED <<task_pc, task_path, slept>>]_vars

C8_Witness ==
  \E k \in 1..Len(launches) : \E i \in LaunchIdx(k) :
     /\ NamesExisting(launches[k])
     /\ LaunchOpIdx(k, "emit") = {i + 1}
     /\ task_pc = "none"

\* C9: whenever the main window exists, every invocation of the callback
\* calls show and then set_focus, once each, whatever its argument list.
C9_LaunchShowsThenFocuses ==
  window_exists =>
    \A k \in 1..Len(launches) :
      /\ Cardinality(LaunchOpIdx(k, "show")) = 1
      /\ Cardinality(LaunchOpIdx(k, "focus")) = 1
      /\ \A i \in LaunchIdx(k) : \A sh \in LaunchOpIdx(k, "show") :
         \A fo \in LaunchOpIdx(k, "focus") : i < sh /\ sh < fo

C9_Witness ==
  /\ window_exists
  /\ \E k \in 1..Len(launches) :
       /\ ~NamesExisting(launches[k])
       /\ LaunchOpIdx(k, "show") # {}
       /\ LaunchOpIdx(k, "focus") # {}

\* C10: the slot starts Empty, is written at most once and only by the setup
\* hook's store, is Empty in every state after a pull has returned a path,
\* and holds the startup path for as long as no pull follows the capture.
C10_SlotSetOnceByStartup ==
  /\ []((CaptureIdx = {}) => pending = None)
  /\ [](Cardinality(CaptureIdx) <= 1)
  /\ [][(pending' # pending /\ pending' # None)
          => (setup_pc = "locked" /\ setup_pc' = "stored" /\ pending' = args[2])]_vars
  /\ []((\E j \in PullIdx : log[j].val # None) => pending = None)
  /\ [](\A i \in CaptureIdx :
          (\A j \in PullIdx : j < i) => pending = args[2])

C10_Witness ==
  \E i \in CaptureIdx : \E j \in PullIdx : \E k \in 1..Len(launches) :
  \E l \in LaunchIdx(k) :
     /\ i < j /\ j < l
     /\ log[j].val # None
     /\ NamesExisting(launches[k])
     /\ pending = None

EmitIdx    == {i \in 1..Len(log) : log[i].op = "emit"}
GotPathIdx == {j \in PullIdx : log[j].val # None}
ValidLaunches == {k \in 1..Len(launches) : NamesExisting(launches[k])}

\* C11: per launch event the path is pushed at most once and pulled at most
\* once: the task emits at most once, at most one pull returns a path (the
\* startup one), each second launch emits at most once and is never pulled,
\* so deliveries never exceed two per launch event that carried a valid path.
C11_AtMostOncePerChannel ==
  /\ Cardinality(TaskEmitIdx) <= 1
  /\ Cardinality(GotPathIdx) <= 1
  /\ \A j \in GotPathIdx : NamesExisting(args) /\ log[j].val = args[2]
  /\ \A k \in 1..Len(launches) : Cardinality(LaunchOpIdx(k, "emit")) <= 1
  /\ \A e \in EmitIdx :
        \/ e \in TaskEmitIdx
        \/ \E k \in ValidLaunches : e \in LaunchOpIdx(k, "emit")
  /\ Cardinality(EmitIdx) + Cardinality(GotPathIdx)
        <= 2 * (Cardinality(CaptureIdx) + Cardinality(ValidLaunches))

C11_Witness ==
  /\ \E e \in TaskEmitIdx : \E j \in GotPathIdx : log[e].val = log[j].val
  /\ \E k \in ValidLaunches : LaunchOpIdx(k, "emit") # {}

\* C12: the take happens under the mutex: at most one invocation is inside
\* the lock at a time, the setup closure is not inside it at the same time,
\* and of any two pulls at most one returns the path.
C12_PullAtomicUnderLock ==
  /\ Cardinality({t \in Pullers : pull_pc[t] = "locked"}) <= 1
  /\ (mutex = "pull") <=> (\E t \in Pullers : pull_pc[t] = "locked")
  /\ (mutex = "setup") <=> (setup_pc = "locked")
  /\ \A j \in PullIdx : \A k \in PullIdx :
        (j # k) => (log[j].val = None \/ log[k].val = None)

C12_Witness ==
  \E i \in CaptureIdx : \E j \in PullIdx :
     /\ i < j
     /\ j + 1 \in PullIdx
     /\ log[j].val = log[i].val
     /\ log[j + 1].val = None

\* this step is a step of the spawned task
TaskStep == slept' # slept \/ task_pc' # task_pc

\* C13: the setup closure has released the mutex before it spawns the task,
\* the task never touches the mutex, and while the task is still sleeping a
\* pull can take the free mutex and complete.
C13_LockFreeDuringDelay ==
  /\ [](setup_pc \in {"stored", "done"} => mutex # "setup")
  /\ [](task_pc # "none" => mutex # "setup")
  /\ [][(TaskStep /\ task_pc # "none") => mutex' = mutex]_vars
  /\ []((task_pc = "sleeping" /\ slept < DELAY_MS) =>
          /\ (mutex = "free" /\ NumPulls + InFlight < MaxPulls)
                => \A t \in Pullers : pull_pc[t] = "idle" => ENABLED PullLock(t)
          /\ \A t \in Pullers : pull_pc[t] = "locked" => ENABLED PullTake(t))

C13_Witness ==
  /\ task_pc = "sleeping"
  /\ slept < DELAY_MS
  /\ \E i \in CaptureIdx : \E j \in PullIdx : i < j /\ log[j].val = log[i].val

\* C14: when the main window is not found the callback still runs to its
\* end: a valid path has been emitted, show and set_focus are not called,
\* and the slot, the mutex and the setup closure are left as they were.
C14_MissingWindowIsHarmless ==
  /\ [](~window_exists =>
          \A k \in 1..Len(launches) :
            /\ Cardinality(LaunchIdx(k)) = 1
            /\ LaunchOpIdx(k, "show") = {}
            /\ LaunchOpIdx(k, "focus") = {}
            /\ NamesExisting(launches[k]) =>
                 \E e \in LaunchOpIdx(k, "emit") : log[e].val = launches[k][2])
  /\ [][(LaunchStep /\ ~window_exists) =>
          UNCHANGED <<pending, mutex, setup_pc, setup_result>>]_vars

C14_Witness ==
  /\ ~window_exists
  /\ \E k \in ValidLaunches :
       /\ LaunchOpIdx(k, "emit") # {}
       /\ LaunchOpIdx(k, "show") = {}
       /\ LaunchOpIdx(k, "focus") = {}

\* C15: nothing is queued or re-emitted: the number of emissions is one for
\* the finished task plus one per second launch with a valid path, whether
\* or not a listener was attached, and the step in which the listener
\* attaches emits nothing and leaves the task alone.
C15_EmissionsNeverRepeated ==
  /\ [](Cardinality(EmitIdx) =
          (IF task_pc = "done" THEN 1 ELSE 0) + Cardinality(ValidLaunches))
  /\ [](Cardinality(TaskEmitIdx) <= Cardinality(CaptureIdx))
  /\ []((task_pc = "done") => (CaptureIdx # {} /\ ~ENABLED TaskEmit))
  /\ [][(listening' # listening) =>
          UNCHANGED <<log, task_pc, task_path, slept, pending, launches>>]_vars

C15_Witness ==
  /\ ~listening
  /\ task_pc = "done"
  /\ Cardinality(TaskEmitIdx) = 1
  /\ \E k \in ValidLaunches : Cardinality(LaunchOpIdx(k, "emit")) = 1
  /\ Cardinality(EmitIdx) = 2

\* this step is a step of a get_pending_file invocation
PullStep == pull_pc' # pull_pc

\* C16: a pull changes nothing but the slot (and its own lock and result):
\* it emits nothing, calls nothing on the window, leaves the task, the setup
\* closure and the listener alone, returns what the slot held and leaves the
\* slot Empty; on an Empty slot it returns None and the slot stays Empty.
C16_PullOnlyClearsSlot ==
  [][PullStep =>
       /\ UNCHANGED <<args, fs, window_exists, listening, setup_pc, path,
                      setup_result, task_pc, task_path, slept, launches>>
       /\ \/ log' = log /\ pending' = pending
          \/ /\ log' = Append(log, Entry("pull", "pull", 0, pending))
             /\ pending' = None]_vars

C16_Witness ==
  /\ task_pc = "sleeping"
  /\ pending = None
  /\ \E j \in GotPathIdx : \E k \in PullIdx : j < k /\ log[k].val = None
  /\ EmitIdx = {}

\* C17: the task emits the path captured at startup, its own copy, whatever
\* pulls and second launches have done to the slot or emitted meanwhile.
C17_DeferredPayloadIsStartupPath ==
  /\ (task_pc # "none") => (NamesExisting(args) /\ task_path = args[2])
  /\ \A e \in TaskEmitIdx :
        /\ log[e].val = args[2]
        /\ \E i \in CaptureIdx : i < e /\ log[i].val = log[e].val

C17_Witness ==
  \E i \in CaptureIdx : \E j \in GotPathIdx : \E k \in ValidLaunches :
  \E l \in LaunchIdx(k) : \E e \in TaskEmitIdx :
     /\ i < j /\ j < e
     /\ i < l /\ l < e
     /\ launches[k][2] # args[2]
     /\ pending = None
     /\ log[e].val = args[2]

\* C18 as stated: once the callback has emitted a valid q with no listener
\* attached, no later pull returns q and no later emission carries q.
C18_LaunchPathNeverSeenAgain ==
  ~listening =>
    \A k \in ValidLaunches : \A i \in LaunchIdx(k) :
      /\ \A j \in PullIdx : j > i => log[j].val # launches[k][2]
      /\ \A e \in EmitIdx : e > i + 1 => log[e].val # launches[k][2]

\* C18 amended: the callback stores nothing and starts nothing, so after it
\* has emitted q a later pull returns q only when q is the captured startup
\* path, and a later emission carries q only when it is the startup task's
\* emission of that same startup path or the emission of another launch.
C18_LaunchIntentOnlyEmitted ==
  /\ (pending # None) => (CaptureIdx # {} /\ pending = args[2])
  /\ \A k \in ValidLaunches : \A i \in LaunchIdx(k) :
       /\ \A j \in PullIdx :
            (j > i /\ log[j].val = launches[k][2])
               => (launches[k][2] = args[2] /\ \E c \in CaptureIdx : c < j)
       /\ \A e \in EmitIdx :
            (e > i + 1 /\ log[e].val = launches[k][2])
               => \/ (e \in TaskEmitIdx /\ launches[k][2] = args[2])
                  \/ \E k2 \in ValidLaunches : k2 # k /\ e \in LaunchOpIdx(k2, "emit")

C18_Witness ==
  /\ ~listening
  /\ \E k \in ValidLaunches : \E i \in LaunchIdx(k) :
     \E j \in GotPathIdx : \E e \in TaskEmitIdx :
        /\ i < j /\ i < e
        /\ launches[k][2] # args[2]
        /\ log[j].val # launches[k][2]
        /\ log[e].val # launches[k][2]

\* the background task and the rest of the setup closure keep running
LiveSpec ==
  Spec /\ WF_vars(SetupSpawn) /\ WF_vars(TaskSleep) /\ WF_vars(TaskEmit)

====
